---- MODULE Spec2Model ----
(***************************************************************************)
(* A model of the QuickJS bytecode-serialization reader and writer of      *)
(* package serde.  The reader consumes a byte stream (version byte, atom   *)
(* table, one tag-prefixed value); the writer emits one.                   *)
(*                                                                         *)
(* The newest revision of the package (ReadValue, ReadObject with a        *)
(* caller-supplied record, WriteValue) lives in src/unnamed/part_001,      *)
(* lines 450-884; the oldest one (ReadObject returning a value,            *)
(* WriteObject) is src/serde.go.  Both are modelled; the definitions of    *)
(* the oldest revision whose names clash carry the suffix V0.              *)
(*                                                                         *)
(* Conventions.  A byte stream is a sequence of 0..255 and a read position *)
(* is the 1-based index of the next unread byte.  Every reading operator   *)
(* returns a record with the fields err (a panic message, "" for none),    *)
(* pos (the position after the read) and v (what was read).  A Go string   *)
(* is the sequence of its bytes.  TLC integers are 32 bits wide, so a      *)
(* 64-bit quantity is kept as its little-endian sequence of 7-bit groups   *)
(* (varints) or of 16-bit words (array elements).  A panic travels up the  *)
(* calls through Bind and Catch, which run the rest of a function only on  *)
(* a read that did not panic.                                              *)
(***************************************************************************)
EXTENDS Integers, Sequences, FiniteSets, TLC

\* ---------------------------------------------------------------- constants

bcVersion == 12

tagNull == 1
tagUndefined == 2
tagFalse == 3
tagTrue == 4
tagInt32 == 5
tagFloat64 == 6
tagString == 7
tagObject == 8
tagArray == 9
tagBigInt == 10
tagTemplateObject == 11
tagFunctionBytecode == 12
tagModule == 13
tagTypedArray == 14
tagArrayBuffer == 15
tagSharedArrayBuffer == 16
tagRegExp == 17
tagDate == 18
tagObjectValue == 19
tagObjectReference == 20

uint8ClampedArray == 0
int8Array == 1
uint8Array == 2
int16Array == 3
uint16Array == 4
int32Array == 5
uint32Array == 6
bigInt64Array == 7
bigUint64Array == 8
float32Array == 9
float64Array == 10

\* ------------------------------------------------------------------ helpers

Min(a, b) == IF a < b THEN a ELSE b
Max(a, b) == IF a > b THEN a ELSE b

\* s[from..from+n-1], cut at the end of s.
Slice(s, from, n) == SubSeq(s, from, Min(from + n - 1, Len(s)))

Zeros(n) == [i \in 1..n |-> 0]

\* A reader's outcome: a panic, or a value and the next position.
Panic(msg, pos) == [err |-> msg, pos |-> pos, v |-> <<>>]
Ok(val, pos) == [err |-> "", pos |-> pos, v |-> val]

\* The rest K of a function runs on the outcome x of a read unless the read
\* panicked; the panic is then the function's outcome, or what H makes of it.
Bind(x, K(_)) == IF x.err # "" THEN x ELSE K(x)
Catch(x, H(_), K(_)) == IF x.err # "" THEN H(x) ELSE K(x)

\* ---------------------------------------------------------- the byte source

\* io.Reader.Read of an in-memory reader (bytes.Reader, as the tests use):
\* at the end of the data it reports EOF, otherwise it copies what is there,
\* at most n bytes, and reports no error.  v is the bytes copied.
Read(s, pos, n) ==
  IF pos > Len(s) THEN Panic("EOF", pos)
  ELSE Ok(Slice(s, pos, n), Min(pos + n, Len(s) + 1))

\* io.ReadFull, which encoding/binary's Read uses: all n bytes or an error.
ReadFull(s, pos, n) ==
  IF n = 0 THEN Ok(<<>>, pos)
  ELSE IF pos > Len(s) THEN Panic("EOF", pos)
  ELSE IF Len(s) - pos + 1 < n THEN Panic("unexpected EOF", Len(s) + 1)
  ELSE Ok(Slice(s, pos, n), pos + n)

\* byteReader.ReadByte and readByte: one byte, or the reader's error.
readByte(s, pos) == Bind(Read(s, pos, 1), LAMBDA b : Ok(b.v[1], b.pos))

\* readBytes: a buffer of n bytes filled by ONE Read call; an error counts
\* only when n > 0.  The bytes Read did not deliver stay zero.
readBytes(s, pos, n) ==
  Catch(Read(s, pos, n),
        LAMBDA x : IF n > 0 THEN Panic(x.err, pos) ELSE Ok(<<>>, pos),
        LAMBDA x : Ok(x.v \o Zeros(n - Len(x.v)), x.pos))

\* ------------------------------------------------------------------ varints

\* binary.ReadUvarint over a byteReader: up to ten bytes, seven bits each,
\* least significant group first, the high bit of a byte meaning "more".
\* v is the sequence of groups read (acc with the last group appended); i is
\* the number of bytes already read.
RECURSIVE uvarintFrom(_, _, _, _)
uvarintFrom(s, pos, i, acc) ==
  IF i = 10 THEN Panic("binary: varint overflows a 64-bit integer", pos)
  ELSE Catch(readByte(s, pos),
         LAMBDA b : Panic(IF i > 0 /\ b.err = "EOF" THEN "unexpected EOF" ELSE b.err,
                          pos),
         LAMBDA b : IF b.v >= 128 THEN uvarintFrom(s, b.pos, i + 1, Append(acc, b.v - 128))
                    ELSE IF i = 9 /\ b.v > 1
                      THEN Panic("binary: varint overflows a 64-bit integer", b.pos)
                    ELSE Ok(Append(acc, b.v), b.pos))

ReadUvarint(s, pos) == uvarintFrom(s, pos, 0, <<>>)

\* The group at index i of a group sequence, 0 past its end.
Group(g, i) == IF i <= Len(g) THEN g[i] ELSE 0

\* The groups' value is at most math.MaxUint32: nothing at bit 32 or above.
FitsUint32(g) == Group(g, 5) < 16 /\ \A i \in 6..Len(g) : g[i] = 0

\* The value of groups that fit 31 bits (TLC's integers end at 2^31 - 1).
GroupsToInt(g) ==
  Group(g, 1) + Group(g, 2) * 128 + Group(g, 3) * 16384
    + Group(g, 4) * 2097152 + Group(g, 5) * 268435456

\* readUint32: an unsigned varint, refused above math.MaxUint32 (on a 64-bit
\* build math.MaxInt is no further limit).  A count of 2^31 or more is beyond
\* TLC's integers; the streams enumerated below hold none.
readUint32(s, pos) ==
  Bind(ReadUvarint(s, pos), LAMBDA u :
    IF ~FitsUint32(u.v) THEN Panic("uint32 out of range", u.pos)
    ELSE Ok(GroupsToInt(u.v), u.pos))

\* Bits 1..31 of the groups' value: (ux >> 1) mod 2^31.
HalfLow31(g) ==
  (Group(g, 1) \div 2) + Group(g, 2) * 64 + Group(g, 3) * 8192
    + Group(g, 4) * 1048576 + (Group(g, 5) % 16) * 134217728

\* binary.ReadVarint's zig-zag decoding, x = ux >> 1, complemented when ux is
\* odd, for a ux below 2^32: then ux >> 1 is below 2^31.
ZigZag(g) == IF Group(g, 1) % 2 = 1 THEN (0 - HalfLow31(g)) - 1 ELSE HalfLow31(g)

\* The low 32 bits of ux >> 1 as a two's complement number.  Bit 31 of
\* ux >> 1 is bit 4 of group 5.
WrapHalf(g) ==
  IF (Group(g, 5) \div 16) % 2 = 1 THEN (HalfLow31(g) - 2147483647) - 1
  ELSE HalfLow31(g)

\* int32(v) of the 64-bit v = zig-zag of ux, whatever ux.
WrapInt32(g) == IF Group(g, 1) % 2 = 1 THEN (0 - WrapHalf(g)) - 1 ELSE WrapHalf(g)

\* The Int32 case with the range test left out.
readInt32NoCheck(s, pos) ==
  Bind(ReadUvarint(s, pos), LAMBDA u :
    Ok([t |-> "int32", i |-> WrapInt32(u.v)], u.pos))

\* The Int32 case of readValue: a signed varint (binary.ReadVarint), refused
\* outside [math.MinInt32, math.MaxInt32].  Zig-zag maps exactly the ux below
\* 2^32 onto that range.
readInt32(s, pos) ==
  Bind(ReadUvarint(s, pos), LAMBDA u :
    IF ~FitsUint32(u.v) THEN Panic("int32 out of range", u.pos)
    ELSE Ok([t |-> "int32", i |-> ZigZag(u.v)], u.pos))

\* ------------------------------------------------------------------ strings

\* The little-endian 16-bit units held by a run of bytes.
RECURSIVE Units(_)
Units(b) ==
  IF Len(b) < 2 THEN <<>>
  ELSE <<b[1] + 256 * b[2]>> \o Units(SubSeq(b, 3, Len(b)))

IsHighSurrogate(u) == 55296 <= u /\ u < 56320
IsLowSurrogate(u) == 56320 <= u /\ u < 57344

\* utf16.Decode: a high surrogate followed by a low one is one code point
\* above the basic plane; any other surrogate becomes U+FFFD.
RECURSIVE utf16Decode(_)
utf16Decode(h) ==
  IF h = <<>> THEN <<>>
  ELSE IF ~IsHighSurrogate(h[1]) /\ ~IsLowSurrogate(h[1])
    THEN <<h[1]>> \o utf16Decode(Tail(h))
  ELSE IF IsHighSurrogate(h[1]) /\ Len(h) > 1 /\ IsLowSurrogate(h[2])
    THEN <<(h[1] - 55296) * 1024 + (h[2] - 56320) + 65536>>
           \o utf16Decode(SubSeq(h, 3, Len(h)))
  ELSE <<65533>> \o utf16Decode(Tail(h))

\* The UTF-8 bytes of a code point: string(rune).
EncodeRune(c) ==
  IF c < 128 THEN <<c>>
  ELSE IF c < 2048 THEN <<192 + (c \div 64), 128 + (c % 64)>>
  ELSE IF c < 65536
    THEN <<224 + (c \div 4096), 128 + ((c \div 64) % 64), 128 + (c % 64)>>
  ELSE <<240 + (c \div 262144), 128 + ((c \div 4096) % 64),
         128 + ((c \div 64) % 64), 128 + (c % 64)>>

RECURSIVE RunesToString(_)
RunesToString(rs) ==
  IF rs = <<>> THEN <<>> ELSE EncodeRune(rs[1]) \o RunesToString(Tail(rs))

\* readString: a varint whose low bit says "wide" and whose other bits are
\* the count; wide strings are count UTF-16 units read in full by
\* binary.Read, narrow ones are count bytes read by readBytes.
readString(s, pos) ==
  Bind(readUint32(s, pos), LAMBDA n :
    IF n.v % 2 = 1
      THEN Bind(ReadFull(s, n.pos, 2 * (n.v \div 2)), LAMBDA h :
             Ok(RunesToString(utf16Decode(Units(h.v))), h.pos))
      ELSE readBytes(s, n.pos, n.v \div 2))

\* --------------------------------------------------------- header and atoms

RECURSIVE readAtomTable(_, _, _, _)
readAtomTable(s, pos, count, atoms) ==
  IF Len(atoms) = count THEN Ok(atoms, pos)
  ELSE Bind(readString(s, pos), LAMBDA a :
         readAtomTable(s, a.pos, count, Append(atoms, a.v)))

\* readHeader with the version test left out.
readHeaderAnyVersion(s) ==
  Bind(readByte(s, 1), LAMBDA ver :
    Bind(readUint32(s, ver.pos), LAMBDA count :
      readAtomTable(s, count.pos, count.v, <<>>)))

\* readHeader: the version byte, which must be bcVersion, the atom count and
\* that many strings.  v is the atom table.
readHeader(s) ==
  Bind(readByte(s, 1), LAMBDA ver :
    IF ver.v # bcVersion THEN Panic("version mismatch", ver.pos)
    ELSE Bind(readUint32(s, ver.pos), LAMBDA count :
           readAtomTable(s, count.pos, count.v, <<>>)))

\* fmt.Sprintf("%d", n) for n >= 0: the ASCII decimal digits of n.
RECURSIVE FormatInt(_)
FormatInt(n) ==
  IF n < 10 THEN <<48 + n>> ELSE Append(FormatInt(n \div 10), 48 + (n % 10))

\* readAtom with the table counted from 0.
readAtomZeroBased(s, pos, atoms) ==
  Bind(readUint32(s, pos), LAMBDA idx :
    IF idx.v % 2 = 1 THEN Ok(FormatInt(idx.v \div 2), idx.pos)
    ELSE IF idx.v \div 2 < Len(atoms) THEN Ok(atoms[(idx.v \div 2) + 1], idx.pos)
    ELSE Panic("atom out of range", idx.pos))

\* readAtom: an object key.  An odd varint is a tagged integer whose key is
\* its decimal text; an even one indexes the atom table from 1.
readAtom(s, pos, atoms) ==
  Bind(readUint32(s, pos), LAMBDA idx :
    IF idx.v % 2 = 1 THEN Ok(FormatInt(idx.v \div 2), idx.pos)
    ELSE IF idx.v \div 2 > 0 /\ idx.v \div 2 <= Len(atoms)
      THEN Ok(atoms[idx.v \div 2], idx.pos)
    ELSE Panic("atom out of range", idx.pos))

\* ------------------------------------------------------------------- values

\* A decoded or encodable Go value: a record whose field t names its dynamic
\* type.  []any holds its items in a, map[string]any its entries in m (a
\* function from keys), the byte and numeric slices their elements in e.
Nil == [t |-> "nil"]
Undefined == [t |-> "UndefinedValue"]
Bool(b) == [t |-> "bool", b |-> b]
String(bytes) == [t |-> "string", s |-> bytes]
Slice_(items) == [t |-> "[]any", a |-> items]
Map_(entries) == [t |-> "map[string]any", m |-> entries]
Elems(type, elems) == [t |-> type, e |-> elems]

\* A conversion that normalises: a zero comes out as +0.0 whatever its sign
\* bit.
Float64Normalised(b) ==
  [t |-> "float64",
   sign |-> IF b[8] % 128 = 0 /\ \A i \in 1..7 : b[i] = 0 THEN 0 ELSE b[8] \div 128,
   exp |-> (b[8] % 128) * 16 + (b[7] \div 16),
   frac |-> <<b[7] % 16, b[6], b[5], b[4], b[3], b[2], b[1]>>]

\* math.Float64frombits of eight little-endian bytes: the sign bit, the
\* eleven exponent bits and the 52 fraction bits (most significant first).
Float64(b) ==
  [t |-> "float64", sign |-> b[8] \div 128,
   exp |-> (b[8] % 128) * 16 + (b[7] \div 16),
   frac |-> <<b[7] % 16, b[6], b[5], b[4], b[3], b[2], b[1]>>]

\* ------------------------------------------------------------- typed arrays

ArrayKinds == uint8ClampedArray..float64Array

\* The size in bytes of one element of a typed array of the given kind.
ElemSize(kind) ==
  CASE kind \in {uint8ClampedArray, int8Array, uint8Array} -> 1
    [] kind \in {int16Array, uint16Array} -> 2
    [] kind \in {int32Array, uint32Array, float32Array} -> 4
    [] kind \in {bigInt64Array, bigUint64Array, float64Array} -> 8

\* The Go slice type readValue makes for a typed array of the given kind.
SliceType(kind) ==
  CASE kind \in {uint8ClampedArray, uint8Array} -> "[]byte"
    [] kind = int8Array -> "[]int8"
    [] kind = int16Array -> "[]int16"
    [] kind = uint16Array -> "[]uint16"
    [] kind = int32Array -> "[]int32"
    [] kind = uint32Array -> "[]uint32"
    [] kind = bigInt64Array -> "[]int64"
    [] kind = bigUint64Array -> "[]uint64"
    [] kind = float32Array -> "[]float32"
    [] kind = float64Array -> "[]float64"

\* x read as a two's complement number of the given width.
Signed(x, bits) ==
  IF x >= 2 ^ (bits - 1) THEN (x - 2 ^ (bits - 1)) - 2 ^ (bits - 1) ELSE x

\* One element from its little-endian bytes.  Elements of up to 16 bits and
\* int32 are numbers; the wider ones are their 16-bit words, least
\* significant first.
DecodeElem(kind, b) ==
  CASE kind \in {uint8ClampedArray, uint8Array} -> b[1]
    [] kind = int8Array -> Signed(b[1], 8)
    [] kind = uint16Array -> b[1] + 256 * b[2]
    [] kind = int16Array -> Signed(b[1] + 256 * b[2], 16)
    [] kind = int32Array ->
         b[1] + 256 * b[2] + 65536 * b[3] + 16777216 * Signed(b[4], 8)
    [] OTHER -> Units(b)

RECURSIVE DecodeElems(_, _)
DecodeElems(kind, b) ==
  IF Len(b) < ElemSize(kind) THEN <<>>
  ELSE <<DecodeElem(kind, SubSeq(b, 1, ElemSize(kind)))>>
         \o DecodeElems(kind, SubSeq(b, ElemSize(kind) + 1, Len(b)))

\* The end of the typed-array case: a kind outside the switch panics, any
\* other has its n elements read in full by binary.Read.
readElems(s, pos, kind, n) ==
  IF kind \notin ArrayKinds THEN Panic("bad typed array tag", pos)
  ELSE Bind(ReadFull(s, pos, n * ElemSize(kind)), LAMBDA data :
         Ok(Elems(SliceType(kind), DecodeElems(kind, data.v)), data.pos))

\* The typed-array case with the count of the nested buffer not compared.
readTypedArrayAnySize(s, pos) ==
  Bind(readByte(s, pos), LAMBDA kind :
  Bind(readUint32(s, kind.pos), LAMBDA n :
  Bind(readUint32(s, n.pos), LAMBDA off :
  Bind(readByte(s, off.pos), LAMBDA buf :
    IF buf.v # tagArrayBuffer
      THEN Panic("typed array not followed by arraybuffer", buf.pos)
    ELSE Bind(readUint32(s, buf.pos), LAMBDA m :
           readElems(s, m.pos, kind.v, n.v))))))

\* The typed-array case with the offset taken as the place in the buffer
\* where the elements begin (an offset past the end of the stream is as good
\* as one at its end).
readTypedArrayAtOffset(s, pos) ==
  Bind(readByte(s, pos), LAMBDA kind :
  Bind(readUint32(s, kind.pos), LAMBDA n :
  Bind(readUint32(s, n.pos), LAMBDA off :
  Bind(readByte(s, off.pos), LAMBDA buf :
    IF buf.v # tagArrayBuffer
      THEN Panic("typed array not followed by arraybuffer", buf.pos)
    ELSE Bind(readUint32(s, buf.pos), LAMBDA m :
           IF n.v # m.v
             THEN Panic("typed array not followed by arraybuffer of right size",
                        m.pos)
             ELSE readElems(s, m.pos + Min(off.v, Len(s)), kind.v, n.v))))))

\* The typed-array case of readValue, from the byte after the TypedArray tag:
\* the element kind, the count n, the serialization-time offset (read and
\* dropped), a byte that must be the ArrayBuffer tag, a count that must be n,
\* and then the elements.  The kind is judged last.
readTypedArray(s, pos) ==
  Bind(readByte(s, pos), LAMBDA kind :
  Bind(readUint32(s, kind.pos), LAMBDA n :
  Bind(readUint32(s, n.pos), LAMBDA off :
  Bind(readByte(s, off.pos), LAMBDA buf :
    IF buf.v # tagArrayBuffer
      THEN Panic("typed array not followed by arraybuffer", buf.pos)
    ELSE Bind(readUint32(s, buf.pos), LAMBDA m :
           IF n.v # m.v
             THEN Panic("typed array not followed by arraybuffer of right size",
                        m.pos)
             ELSE readElems(s, m.pos, kind.v, n.v))))))

\* ---------------------------------------------------------------- readValue

\* The decimal text of a tag byte, as fmt's %d prints it.
Digit(n) ==
  CASE n = 0 -> "0" [] n = 1 -> "1" [] n = 2 -> "2" [] n = 3 -> "3"
    [] n = 4 -> "4" [] n = 5 -> "5" [] n = 6 -> "6" [] n = 7 -> "7"
    [] n = 8 -> "8" [] n = 9 -> "9"

RECURSIVE Decimal(_)
Decimal(n) == IF n < 10 THEN Digit(n) ELSE Decimal(n \div 10) \o Digit(n % 10)

\* tagName that knows no name and prints the number of every tag.
tagNameNumberOnly(tag) == "unknown tag " \o Decimal(tag)

tagName(tag) ==
  CASE tag = tagNull -> "null"
    [] tag = tagUndefined -> "undefined"
    [] tag = tagFalse -> "false"
    [] tag = tagTrue -> "true"
    [] tag = tagInt32 -> "int32"
    [] tag = tagFloat64 -> "float64"
    [] tag = tagString -> "string"
    [] tag = tagObject -> "object"
    [] tag = tagArray -> "array"
    [] tag = tagBigInt -> "bigint"
    [] tag = tagTemplateObject -> "template object"
    [] tag = tagFunctionBytecode -> "function bytecode"
    [] tag = tagModule -> "module"
    [] tag = tagTypedArray -> "typed array"
    [] tag = tagArrayBuffer -> "arraybuffer"
    [] tag = tagSharedArrayBuffer -> "sharedarraybuffer"
    [] tag = tagRegExp -> "regexp"
    [] tag = tagDate -> "date"
    [] tag = tagObjectValue -> "object value"
    [] tag = tagObjectReference -> "object reference"
    [] OTHER -> "unknown tag " \o Decimal(tag)

\* The outcome of a readValue activation.  depth is the deepest activation
\* it started, itself included; after a panic v is what the activation had
\* built when it was unwound.
Val(val, pos, depth) == [err |-> "", pos |-> pos, v |-> val, depth |-> depth]
Unwound(msg, pos, partial, depth) ==
  [err |-> msg, pos |-> pos, v |-> partial, depth |-> depth]

\* A case of readValue that descends no further: the outcome x of its read,
\* as the outcome of the activation at depth d.
Leaf(x, d) == IF x.err # "" THEN Unwound(x.err, x.pos, Nil, d) ELSE Val(x.v, x.pos, d)

RECURSIVE readValue(_, _, _, _)
RECURSIVE readItems(_, _, _, _, _, _, _)
RECURSIVE readProps(_, _, _, _, _, _, _)

\* The Array case's loop: v holds the items read so far, of n.
readItems(s, pos, atoms, d, n, v, deepest) ==
  IF Len(v) = n THEN Val(Slice_(v), pos, deepest)
  ELSE Catch(readValue(s, pos, atoms, d + 1),
         LAMBDA x : Unwound(x.err, x.pos, Slice_(v), Max(deepest, x.depth)),
         LAMBDA x : readItems(s, x.pos, atoms, d, n, Append(v, x.v),
                              Max(deepest, x.depth)))

\* The Object case's loop: left properties to go, m holds those read; a key
\* met again overwrites its entry.
readProps(s, pos, atoms, d, left, m, deepest) ==
  IF left = 0 THEN Val(Map_(m), pos, deepest)
  ELSE Catch(readAtom(s, pos, atoms),
         LAMBDA atom : Unwound(atom.err, atom.pos, Map_(m), deepest),
         LAMBDA atom :
           Catch(readValue(s, atom.pos, atoms, d + 1),
             LAMBDA x : Unwound(x.err, x.pos, Map_(m), Max(deepest, x.depth)),
             LAMBDA x : readProps(s, x.pos, atoms, d, left - 1,
                                  (atom.v :> x.v) @@ m, Max(deepest, x.depth))))

\* What follows the tag byte.  d counts the Object and Array activations
\* around this one.
readTagged(s, tag, pos, atoms, d) ==
  CASE tag = tagNull -> Val(Nil, pos, d)
    [] tag = tagUndefined -> Val(Undefined, pos, d)
    [] tag = tagFalse -> Val(Bool(FALSE), pos, d)
    [] tag = tagTrue -> Val(Bool(TRUE), pos, d)
    [] tag = tagInt32 -> Leaf(readInt32(s, pos), d)
    [] tag = tagFloat64 ->
         Leaf(Bind(ReadFull(s, pos, 8), LAMBDA x : Ok(Float64(x.v), x.pos)), d)
    [] tag = tagString ->
         Leaf(Bind(readString(s, pos), LAMBDA x : Ok(String(x.v), x.pos)), d)
    [] tag = tagObject ->
         Catch(readUint32(s, pos),
           LAMBDA n : Unwound(n.err, n.pos, Nil, d),
           LAMBDA n : readProps(s, n.pos, atoms, d, n.v, <<>>, d))
    [] tag = tagArray ->
         Catch(readUint32(s, pos),
           LAMBDA n : Unwound(n.err, n.pos, Nil, d),
           LAMBDA n : readItems(s, n.pos, atoms, d, n.v, <<>>, d))
    [] tag = tagArrayBuffer ->
         Leaf(Bind(readUint32(s, pos), LAMBDA n :
                Bind(readBytes(s, n.pos, n.v), LAMBDA x :
                  Ok(Elems("[]byte", x.v), x.pos))), d)
    [] tag = tagTypedArray -> Leaf(readTypedArray(s, pos), d)
    [] OTHER -> Unwound("unsupported " \o tagName(tag), pos, Nil, d)

\* readValue: one tag byte, then the payload the tag announces.
readValue(s, pos, atoms, d) ==
  Catch(readByte(s, pos),
    LAMBDA tag : Unwound(tag.err, pos, Nil, d),
    LAMBDA tag : readTagged(s, tag.v, tag.pos, atoms, d))

\* What a call that recovers a panic hands back: err, and in v the value
\* decoded, nil after a panic (the named result was never assigned).
\* started: the header was read and the value's decoding began.
Recovered(op, x, started) ==
  [op |-> op, err |-> x.err, v |-> IF x.err = "" THEN x.v ELSE Nil,
   pos |-> x.pos, depth |-> IF started THEN x.depth ELSE 0, started |-> started]

\* A ReadValue that hands back what was built before the panic.
ReadValueKeepingPartial(s) ==
  Catch(readHeader(s),
    LAMBDA atoms : Recovered("ReadValue", atoms, FALSE),
    LAMBDA atoms : [Recovered("ReadValue", readValue(s, atoms.pos, atoms.v, 0), TRUE)
                      EXCEPT !.v = readValue(s, atoms.pos, atoms.v, 0).v])

\* ReadValue: the header, then one value; a panic is recovered into err.
ReadValue(s) ==
  Catch(readHeader(s),
    LAMBDA atoms : Recovered("ReadValue", atoms, FALSE),
    LAMBDA atoms : Recovered("ReadValue", readValue(s, atoms.pos, atoms.v, 0), TRUE))

\* ------------------------------------------------------------------ writer

\* An io.Writer: the bytes it has taken, how many it takes before its Write
\* fails (-1: never, a bytes.Buffer), and the panic under way, if any.
Writer(room) == [buf |-> <<>>, room |-> room, err |-> ""]

\* write: w.Write(b), a writer's error becoming a panic.  A failing writer
\* takes the bytes it has room for.  Once a panic is under way nothing later
\* in WriteValue runs.
write(w, b) ==
  IF w.err # "" THEN w
  ELSE IF w.room >= 0 /\ Len(w.buf) + Len(b) > w.room
    THEN [w EXCEPT !.buf = w.buf \o SubSeq(b, 1, w.room - Len(w.buf)),
                   !.err = "short write"]
  ELSE [w EXCEPT !.buf = w.buf \o b]

\* binary.PutUvarint: seven bits a byte, least significant first.
RECURSIVE PutUvarint(_)
PutUvarint(n) ==
  IF n < 128 THEN <<n>> ELSE <<128 + (n % 128)>> \o PutUvarint(n \div 128)

writeUvarint(w, n) == write(w, PutUvarint(n))

\* The kind WriteValue gives each slice type it takes.
KindOf(type) ==
  CASE type = "Uint8ClampedArray" -> uint8ClampedArray
    [] type = "[]byte" -> uint8Array
    [] type = "[]int8" -> int8Array
    [] type = "[]int16" -> int16Array
    [] type = "[]uint16" -> uint16Array
    [] type = "[]int32" -> int32Array
    [] type = "[]uint32" -> uint32Array
    [] type = "[]int64" -> bigInt64Array
    [] type = "[]uint64" -> bigUint64Array
    [] type = "[]float32" -> float32Array
    [] type = "[]float64" -> float64Array

TypedArrayTypes ==
  {"Uint8ClampedArray", "[]byte", "[]int8", "[]int16", "[]uint16", "[]int32",
   "[]uint32", "[]int64", "[]uint64", "[]float32", "[]float64"}

RECURSIVE WordsToBytes(_)
WordsToBytes(ws) ==
  IF ws = <<>> THEN <<>>
  ELSE <<ws[1] % 256, ws[1] \div 256>> \o WordsToBytes(Tail(ws))

\* The little-endian bytes binary.Write makes of one element.
EncodeElem(kind, x) ==
  CASE kind \in {uint8ClampedArray, uint8Array, int8Array} -> <<x % 256>>
    [] kind \in {int16Array, uint16Array} -> <<x % 256, (x \div 256) % 256>>
    [] kind = int32Array ->
         <<x % 256, (x \div 256) % 256, (x \div 65536) % 256,
           (x \div 16777216) % 256>>
    [] OTHER -> WordsToBytes(x)

RECURSIVE EncodeElems(_, _)
EncodeElems(kind, xs) ==
  IF xs = <<>> THEN <<>>
  ELSE EncodeElem(kind, xs[1]) \o EncodeElems(kind, Tail(xs))

\* writeTypedArray: the TypedArray tag and the kind, the count, a zero
\* offset, the ArrayBuffer tag, the count again, and the elements.
writeTypedArray(w, n, elems, kind) ==
  write(
    writeUvarint(
      write(
        writeUvarint(
          writeUvarint(write(w, <<tagTypedArray, kind>>), n),
          0),
        <<tagArrayBuffer>>),
      n),
    EncodeElems(kind, elems))

\* The switch of WriteValue on the dynamic type of v; a type outside it
\* panics.
writeSwitch(w, v) ==
  CASE v.t = "nil" -> write(w, <<tagNull>>)
    [] v.t = "UndefinedValue" -> write(w, <<tagUndefined>>)
    [] v.t = "bool" -> write(w, <<IF v.b THEN tagTrue ELSE tagFalse>>)
    [] v.t = "ArrayBuffer" ->
         write(writeUvarint(write(w, <<tagArrayBuffer>>), Len(v.e)), v.e)
    [] v.t \in TypedArrayTypes -> writeTypedArray(w, Len(v.e), v.e, KindOf(v.t))
    [] OTHER -> IF w.err # "" THEN w ELSE [w EXCEPT !.err = "unsupported type"]

\* What an encoding call hands back: the error returned and the writer as
\* the call left it.
Written(op, w) == [op |-> op, err |-> w.err, w |-> w]

\* WriteValue: the version byte and an empty atom table, then the value by
\* its dynamic type; a panic is recovered into err.
WriteValue(w, v) ==
  Written("WriteValue", writeSwitch(writeUvarint(write(w, <<bcVersion>>), 0), v))

\* WriteObject of the oldest revision: it writes nothing and reports success.
WriteObject(w, v) == [op |-> "WriteObject", err |-> "", w |-> w]

\* ------------------------------------------------- ReadObject into a record

\* A caller's record: a function from field names to fields, each with its
\* declared Go type and its current value.
Field(type, val) == [type |-> type, val |-> val]
GoInt(i) == [t |-> "int", i |-> i]
IntPtr(isNil) == [t |-> "*int", isNil |-> isNil]

\* reflect's zero value of a type.
ZeroOf(type) ==
  CASE type = "int" -> GoInt(0)
    [] type = "*int" -> IntPtr(TRUE)
    [] type = "bool" -> Bool(FALSE)
    [] type = "any" -> Nil
    [] type = "[]byte" -> Elems("[]byte", <<>>)

\* reflect.Value.Set's test: the value's dynamic type is the field's type, or
\* the field is an empty interface.
Assignable(valueType, fieldType) == fieldType = "any" \/ valueType = fieldType

\* setField that treats a name the record has no field for as an error.
setFieldStrict(rec, name, value) ==
  IF name \notin DOMAIN rec THEN [err |-> "no such field", rec |-> rec]
  ELSE IF value.t = "nil"
    THEN [err |-> "", rec |-> [rec EXCEPT ![name].val = ZeroOf(rec[name].type)]]
  ELSE IF ~Assignable(value.t, rec[name].type)
    THEN [err |-> "reflect.Set: value is not assignable", rec |-> rec]
  ELSE [err |-> "", rec |-> [rec EXCEPT ![name].val = value]]

\* setField: the field named name, if the record has one, is set to value,
\* to its zero value when value is nil (no valid reflect.Value); Set panics
\* when value's type is not assignable to the field's.
setField(rec, name, value) ==
  IF name \notin DOMAIN rec THEN [err |-> "", rec |-> rec]
  ELSE IF value.t = "nil"
    THEN [err |-> "", rec |-> [rec EXCEPT ![name].val = ZeroOf(rec[name].type)]]
  ELSE IF ~Assignable(value.t, rec[name].type)
    THEN [err |-> "reflect.Set: value is not assignable", rec |-> rec]
  ELSE [err |-> "", rec |-> [rec EXCEPT ![name].val = value]]

\* The outcome of ReadObject so far: rec is the caller's record as it is now.
Bound(err, pos, rec, depth) == [err |-> err, pos |-> pos, rec |-> rec, depth |-> depth]

\* The record after setField, or its panic.
Set(set, pos, depth) == Bound(set.err, pos, set.rec, depth)

\* ReadObject's loop: left properties to go, rec the record so far.
RECURSIVE bindProps(_, _, _, _, _, _)
bindProps(s, pos, atoms, left, rec, deepest) ==
  IF left = 0 THEN Bound("", pos, rec, deepest)
  ELSE Catch(readAtom(s, pos, atoms),
         LAMBDA name : Bound(name.err, name.pos, rec, deepest),
         LAMBDA name :
           Catch(readValue(s, name.pos, atoms, 1),
             LAMBDA x : Bound(x.err, x.pos, rec, Max(deepest, x.depth)),
             LAMBDA x :
               Bind(Set(setField(rec, name.v, x.v), x.pos, Max(deepest, x.depth)),
                 LAMBDA set : bindProps(s, x.pos, atoms, left - 1, set.rec,
                                        set.depth))))

\* What ReadObject hands back: err, the record when the call returns, and
\* before it the record handed in.
Returned(x, after, before, started) ==
  [op |-> "ReadObject", err |-> x.err, pos |-> x.pos, rec |-> after,
   before |-> before, depth |-> IF started THEN x.depth ELSE 0,
   started |-> started]

\* ReadObject once the loop has run or panicked: fields set before a panic
\* stay set.
AfterProps(b, before) == Returned(b, b.rec, before, TRUE)

\* ReadObject: the header, the Object tag, the property count, and each
\* property set on the caller's record as soon as it is decoded.
ReadObject(s, rec) ==
  Catch(readHeader(s),
    LAMBDA atoms : Returned(atoms, rec, rec, FALSE),
    LAMBDA atoms :
      Catch(readByte(s, atoms.pos),
        LAMBDA tag : Returned(tag, rec, rec, FALSE),
        LAMBDA tag :
          IF tag.v # tagObject
            THEN Returned(Panic("object expected, have " \o tagName(tag.v), tag.pos),
                          rec, rec, FALSE)
          ELSE Catch(readUint32(s, tag.pos),
                 LAMBDA count : Returned(count, rec, rec, FALSE),
                 LAMBDA count :
                   AfterProps(bindProps(s, count.pos, atoms.v, count.v, rec, 0),
                              rec))))

\* ------------------------------------------ the oldest revision (serde.go)

\* bufio.Reader.Read over the in-memory reader: a read of no bytes succeeds,
\* any other is the reader's own Read (the buffer holds the whole stream).
BufRead(s, pos, n) == IF n = 0 THEN Ok(<<>>, pos) ELSE Read(s, pos, n)

\* readBytes of serde.go: one Read into a buffer of n bytes, any error a
\* panic; bytes Read did not deliver stay zero.
readBytesV0(s, pos, n) ==
  Bind(BufRead(s, pos, n), LAMBDA x : Ok(x.v \o Zeros(n - Len(x.v)), x.pos))

readStringV0(s, pos) ==
  Bind(readUint32(s, pos), LAMBDA n :
    IF n.v % 2 = 1
      THEN Bind(ReadFull(s, n.pos, 2 * (n.v \div 2)), LAMBDA h :
             Ok(RunesToString(utf16Decode(Units(h.v))), h.pos))
      ELSE readBytesV0(s, n.pos, n.v \div 2))

\* The typed-array case of serde.go's readObject: as readTypedArray, but the
\* kind is judged as soon as it is read.
readTypedArrayV0(s, pos) ==
  Bind(readByte(s, pos), LAMBDA kind :
    IF kind.v > 10 THEN Panic("bad typed array tag", kind.pos)
    ELSE Bind(readUint32(s, kind.pos), LAMBDA n :
         Bind(readUint32(s, n.pos), LAMBDA off :
         Bind(readByte(s, off.pos), LAMBDA buf :
           IF buf.v # tagArrayBuffer
             THEN Panic("typed array not followed by arraybuffer", buf.pos)
           ELSE Bind(readUint32(s, buf.pos), LAMBDA m :
                  IF n.v # m.v
                    THEN Panic("typed array not followed by arraybuffer of right size",
                               m.pos)
                    ELSE readElems(s, m.pos, kind.v, n.v))))))

\* The key of a property in serde.go's readObject.
readKeyV0(s, pos, atoms) ==
  Bind(readUint32(s, pos), LAMBDA k :
    IF k.v % 2 = 1 THEN Ok(FormatInt(k.v \div 2), k.pos)
    ELSE IF k.v \div 2 > 0 /\ k.v \div 2 <= Len(atoms)
      THEN Ok(atoms[k.v \div 2], k.pos)
    ELSE Panic("atom out of range", k.pos))

\* Two lower-case hexadecimal digits, as fmt's %02x prints a byte.
HexDigit(n) ==
  CASE n < 10 -> Digit(n)
    [] n = 10 -> "a" [] n = 11 -> "b" [] n = 12 -> "c"
    [] n = 13 -> "d" [] n = 14 -> "e" [] n = 15 -> "f"

Hex2(n) == HexDigit(n \div 16) \o HexDigit(n % 16)

RECURSIVE readObject(_, _, _, _)
RECURSIVE readItemsV0(_, _, _, _, _, _, _)
RECURSIVE readPropsV0(_, _, _, _, _, _, _)

readItemsV0(s, pos, atoms, d, n, v, deepest) ==
  IF Len(v) = n THEN Val(Slice_(v), pos, deepest)
  ELSE Catch(readObject(s, pos, atoms, d + 1),
         LAMBDA x : Unwound(x.err, x.pos, Slice_(v), Max(deepest, x.depth)),
         LAMBDA x : readItemsV0(s, x.pos, atoms, d, n, Append(v, x.v),
                                Max(deepest, x.depth)))

readPropsV0(s, pos, atoms, d, left, m, deepest) ==
  IF left = 0 THEN Val(Map_(m), pos, deepest)
  ELSE Catch(readKeyV0(s, pos, atoms),
         LAMBDA atom : Unwound(atom.err, atom.pos, Map_(m), deepest),
         LAMBDA atom :
           Catch(readObject(s, atom.pos, atoms, d + 1),
             LAMBDA x : Unwound(x.err, x.pos, Map_(m), Max(deepest, x.depth)),
             LAMBDA x : readPropsV0(s, x.pos, atoms, d, left - 1,
                                    (atom.v :> x.v) @@ m, Max(deepest, x.depth))))

\* What follows the tag byte in serde.go's readObject.
readTaggedV0(s, tag, pos, atoms, d) ==
  CASE tag = tagNull -> Val(Nil, pos, d)
    [] tag = tagUndefined -> Val(Undefined, pos, d)
    [] tag = tagFalse -> Val(Bool(FALSE), pos, d)
    [] tag = tagTrue -> Val(Bool(TRUE), pos, d)
    [] tag = tagInt32 -> Leaf(readInt32(s, pos), d)
    [] tag = tagFloat64 ->
         Leaf(Bind(ReadFull(s, pos, 8), LAMBDA x : Ok(Float64(x.v), x.pos)), d)
    [] tag = tagString ->
         Leaf(Bind(readStringV0(s, pos), LAMBDA x : Ok(String(x.v), x.pos)), d)
    [] tag = tagObject ->
         Catch(readUint32(s, pos),
           LAMBDA n : Unwound(n.err, n.pos, Nil, d),
           LAMBDA n : readPropsV0(s, n.pos, atoms, d, n.v, <<>>, d))
    [] tag = tagArray ->
         Catch(readUint32(s, pos),
           LAMBDA n : Unwound(n.err, n.pos, Nil, d),
           LAMBDA n : readItemsV0(s, n.pos, atoms, d, n.v, <<>>, d))
    [] tag = tagArrayBuffer ->
         Leaf(Bind(readUint32(s, pos), LAMBDA n :
                Bind(readBytesV0(s, n.pos, n.v), LAMBDA x :
                  Ok(Elems("[]byte", x.v), x.pos))), d)
    [] tag = tagTypedArray -> Leaf(readTypedArrayV0(s, pos), d)
    [] tag = tagFunctionBytecode -> Unwound("bytecode not supported", pos, Nil, d)
    [] tag = tagModule -> Unwound("module not supported", pos, Nil, d)
    [] OTHER -> Unwound("unknown tag " \o Hex2(tag), pos, Nil, d)

\* readObject of serde.go: readValue's ancestor.
readObject(s, pos, atoms, d) ==
  Catch(readByte(s, pos),
    LAMBDA tag : Unwound(tag.err, pos, Nil, d),
    LAMBDA tag : readTaggedV0(s, tag.v, tag.pos, atoms, d))

RECURSIVE readAtomTableV0(_, _, _, _)
readAtomTableV0(s, pos, count, atoms) ==
  IF Len(atoms) = count THEN Ok(atoms, pos)
  ELSE Bind(readStringV0(s, pos), LAMBDA a :
         readAtomTableV0(s, a.pos, count, Append(atoms, a.v)))

\* The inlined header of serde.go's ReadObject: the version byte, the atom
\* count and the atoms.
readHeaderV0(s) ==
  Bind(readByte(s, 1), LAMBDA ver :
    IF ver.v # bcVersion THEN Panic("version mismatch", ver.pos)
    ELSE Bind(readUint32(s, ver.pos), LAMBDA count :
           readAtomTableV0(s, count.pos, count.v, <<>>)))

\* ReadObject of serde.go: the header, then one value; a panic is recovered
\* into err and the named result v stays nil.
ReadObjectV0(s) ==
  Catch(readHeaderV0(s),
    LAMBDA atoms : Recovered("ReadObjectV0", atoms, FALSE),
    LAMBDA atoms : Recovered("ReadObjectV0", readObject(s, atoms.pos, atoms.v, 0), TRUE))

\* ------------------------------------------------------------------- inputs

\* The longest run of bytes drawn freely from each alphabet below, and the
\* most elements of a slice handed to the writer.
MaxLen == 4
MaxNest == 6
MaxData == 3
MaxVarint == 5
MaxStr == 4
MaxFloat == 8
MaxElems == 2

SeqsUpTo(S, n) == UNION {[1..k -> S] : k \in 0..n}

\* Tags, counts and keys of small containers and buffers.
GenericPayloads == SeqsUpTo({0, 1, 2, tagObject, tagArray, tagArrayBuffer}, MaxLen)

\* Arrays in arrays and objects in objects ("1" is null, a count of one and
\* the tagged-integer key 0).
NestPayloads == SeqsUpTo({1, tagObject, tagArray}, MaxNest)

\* Typed-array records: kind, count, offset, nested tag, nested count, data.
TypedHeads ==
  {<<tagTypedArray, kind, n, off, tag, m>> :
     kind \in {uint8ClampedArray, int8Array, int16Array, 11}, n \in 0..2,
     off \in 0..1, tag \in {tagArrayBuffer, tagArray}, m \in 0..2}

TypedPayloads ==
  {h \o d : h \in TypedHeads, d \in SeqsUpTo({42, 255}, MaxData)}
    \cup {SubSeq(h, 1, k) : h \in TypedHeads, k \in 1..5}

\* Int32 payloads: signed varints of up to MaxVarint bytes.
IntPayloads == {<<tagInt32>> \o d : d \in SeqsUpTo({15, 16, 128, 255}, MaxVarint)}

\* Strings, narrow and wide, whole and cut short.
StringPayloads ==
  {<<tagString, n>> \o d : n \in {1, 3, 4, 5}, d \in SeqsUpTo({107, 216, 222}, MaxStr)}

FloatPayloads == {<<tagFloat64>> \o d : d \in SeqsUpTo({0, 128}, MaxFloat)}

\* The doubles 13.37, a NaN with a payload, the least subnormal and -1.5.
FloatSamples ==
  {<<tagFloat64>> \o d :
     d \in {<<61, 10, 215, 163, 112, 189, 42, 64>>,
            <<1, 2, 3, 4, 5, 6, 248, 127>>,
            <<1, 0, 0, 0, 0, 0, 0, 0>>,
            <<0, 0, 0, 0, 0, 0, 248, 191>>}}

NoAtoms == <<bcVersion, 0>>
OneAtom == <<bcVersion, 1, 2, 107>>
TwoAtoms == <<bcVersion, 2, 2, 107, 2, 108>>
BadHeaders == {<<11, 0>>, <<13, 1, 2, 107>>, <<0>>}

\* Objects of one property whose value is null, under each key varint: atom
\* numbers 0 to 3 and the tagged integers 0, 10, 42 and 100.
KeyVarints == {<<0>>, <<2>>, <<4>>, <<6>>, <<1>>, <<21>>, <<85>>, <<201, 1>>}

KeyStreams ==
  {h \o <<tagObject, 1>> \o k \o <<tagNull>> :
     h \in {NoAtoms, OneAtom, TwoAtoms}, k \in KeyVarints}

\* Every byte as the tag of a top-level value and of the one item of an
\* Array.
TagStreams ==
  {NoAtoms \o <<tag>> : tag \in 0..255}
    \cup {NoAtoms \o <<tagArray, 1, tag>> : tag \in 0..255}

\* Objects of one or two properties under the atoms k and l: each key is
\* atom 1 (k), atom 2 (l), atom 3 (out of range) or the tagged integer 0, and
\* each value is null, undefined, false, true, the int32 42, an empty Array,
\* an Array of one null, a bigint tag, or missing.
PropKeys == {2, 4, 6, 1}

PropValues ==
  {<<tagNull>>, <<tagUndefined>>, <<tagFalse>>, <<tagTrue>>, <<tagInt32, 84>>,
   <<tagArray, 0>>, <<tagArray, 1, tagNull>>, <<tagBigInt>>, <<>>}

Props == {<<k>> \o v : k \in PropKeys, v \in PropValues}

BinderStreams ==
  {TwoAtoms \o <<tagObject, 1>> \o p : p \in Props}
    \cup {TwoAtoms \o <<tagObject, 2>> \o p \o q : p \in Props, q \in Props}

Streams ==
  {NoAtoms \o p : p \in GenericPayloads \cup NestPayloads \cup TypedPayloads
                         \cup IntPayloads \cup StringPayloads \cup FloatPayloads
                         \cup FloatSamples}
    \cup {OneAtom \o p : p \in GenericPayloads \cup NestPayloads}
    \cup {h \o p : h \in BadHeaders, p \in GenericPayloads}
    \cup KeyStreams
    \cup TagStreams
    \cup BinderStreams
    \cup {<<>>, <<bcVersion>>, <<bcVersion, 1>>, <<bcVersion, 1, 2>>,
          <<bcVersion, 1, 3, 107>>}

\* The elements a slice of each type is filled from.
ElemChoices(type) ==
  CASE type \in {"ArrayBuffer", "Uint8ClampedArray", "[]byte"} -> {42, 255}
    [] type = "[]int8" -> {-1, 42}
    [] type = "[]int16" -> {-2, 258}
    [] type = "[]uint16" -> {258, 65535}
    [] type = "[]int32" -> {-2, 16909060}
    [] type \in {"[]uint32", "[]float32"} -> {<<1, 0>>, <<65535, 49152>>}
    [] OTHER -> {<<1, 0, 0, 0>>, <<513, 0, 65535, 32768>>}

Encodable ==
  {Nil, Undefined, Bool(FALSE), Bool(TRUE)}
    \cup UNION {{Elems(type, e) : e \in SeqsUpTo(ElemChoices(type), MaxElems)} :
                  type \in TypedArrayTypes \cup {"ArrayBuffer"}}

\* Values of types WriteValue's switch does not list.
NotEncodable ==
  {[t |-> "int32", i |-> 42], [t |-> "int", i |-> 42],
   Float64(<<0, 0, 0, 0, 0, 0, 0, 128>>), String(<<111, 107>>),
   Map_(<<107>> :> Nil), Slice_(<<>>), Slice_(<<Nil>>)}

WriteInputs == Encodable \cup NotEncodable

\* How many bytes the writer takes before it fails; -1: a bytes.Buffer.
Rooms == {-1, 0, 1, 2, 3, 6}

\* The records ReadObject is handed.
Records ==
  {<<>>,
   (<<107>> :> Field("int", GoInt(42))),
   (<<107>> :> Field("*int", IntPtr(FALSE))),
   (<<107>> :> Field("any", Bool(TRUE))) @@ (<<108>> :> Field("bool", Bool(TRUE)))}

\* -------------------------------------------------------------------- state

VARIABLES
  pc,    \* what the caller does next
  r,     \* the bytes of the reader handed to the decoding calls
  val,   \* the value handed to the encoding calls
  w,     \* the writer handed to the encoding calls
  out    \* the outcome of the last call

vars == <<pc, r, val, w, out>>

None == [op |-> "none", err |-> ""]

\* A caller about to decode a stream, or about to encode a value.
Init ==
  /\ out = None
  /\ \/ /\ pc = "decode"
        /\ r \in Streams
        /\ val = Nil
        /\ w = Writer(-1)
     \/ /\ pc = "encode"
        /\ r = <<>>
        /\ val \in WriteInputs
        /\ w \in {Writer(room) : room \in Rooms}

CallReadValue ==
  /\ pc \in {"decode", "fed"}
  /\ out' = ReadValue(r)
  /\ pc' = IF pc = "fed" THEN "roundtrip" ELSE "done"
  /\ UNCHANGED <<r, val, w>>

CallReadObject ==
  /\ pc = "decode"
  /\ \E rec \in Records : out' = ReadObject(r, rec)
  /\ pc' = "done"
  /\ UNCHANGED <<r, val, w>>

CallReadObjectV0 ==
  /\ pc = "decode"
  /\ out' = ReadObjectV0(r)
  /\ pc' = "done"
  /\ UNCHANGED <<r, val, w>>

CallWriteValue ==
  /\ pc = "encode"
  /\ out' = WriteValue(w, val)
  /\ w' = out'.w
  /\ pc' = "written"
  /\ UNCHANGED <<r, val>>

CallWriteObject ==
  /\ pc = "encode"
  /\ out' = WriteObject(w, val)
  /\ w' = out'.w
  /\ pc' = "written"
  /\ UNCHANGED <<r, val>>

\* The caller hands what a successful WriteValue wrote to a new reader.
Feed ==
  /\ pc = "written"
  /\ out.op = "WriteValue"
  /\ out.err = ""
  /\ r' = w.buf
  /\ pc' = "fed"
  /\ UNCHANGED <<val, w, out>>

Next ==
  \/ CallReadValue
  \/ CallReadObject
  \/ CallReadObjectV0
  \/ CallWriteValue
  \/ CallWriteObject
  \/ Feed

Spec == Init /\ [][Next]_vars

\* ------------------------------------------------------------------- claims

\* The last call was a decoding call that hands back a value.
Decoded == out.op \in {"ReadValue", "ReadObjectV0"}

\* The last call was any of the decoding calls.
DecodeCall == out.op \in {"ReadValue", "ReadObject", "ReadObjectV0"}

\* The errors of a stream that ends too early.
TruncationErrors == {"EOF", "unexpected EOF"}

\* s is header h followed by p and possibly more.
StartsWith(s, p) == Len(s) >= Len(p) /\ SubSeq(s, 1, Len(p)) = p

\* C1: every value WriteValue accepts comes back from ReadValue, applied to
\* the bytes written, without error, equal and of the same variant.
C1_RoundTrip == pc = "roundtrip" => (out.err = "" /\ out.v = val)

\* C2: a top-level ArrayBuffer or narrow string whose declared byte count is
\* more than the bytes that remain makes the decoding call fail with a
\* truncation error.
ShortBuffer(s) ==
  /\ StartsWith(s, NoAtoms \o <<tagArrayBuffer>>)
  /\ Len(s) >= 4
  /\ s[4] < 128
  /\ Len(s) - 4 < s[4]

ShortNarrowString(s) ==
  /\ StartsWith(s, NoAtoms \o <<tagString>>)
  /\ Len(s) >= 4
  /\ s[4] < 128
  /\ s[4] % 2 = 0
  /\ Len(s) - 4 < s[4] \div 2

C2_TruncationIsFatal ==
  (Decoded /\ (ShortBuffer(r) \/ ShortNarrowString(r)))
    => out.err \in TruncationErrors

\* C3: no decoding call descends through more Objects and Arrays than the
\* depth bound; DepthBound stands for the bound a caller would configure.
DepthBound == 2

C3_DepthBounded == DecodeCall => out.depth <= DepthBound

\* C4: a stream whose first byte is not bcVersion makes every decoding call
\* fail with the version mismatch, having read that one byte only: no value
\* is decoded or returned and the caller's record is as it was.
C4_VersionMismatch ==
  (DecodeCall /\ Len(r) > 0 /\ r[1] # bcVersion)
    => /\ out.err = "version mismatch"
       /\ out.pos = 2
       /\ ~out.started
       /\ out.op = "ReadObject" => out.rec = out.before
       /\ out.op # "ReadObject" => out.v = Nil

\* C4 witness: ReadObject was handed a record with a field k and a stream of
\* version 13 with an atom and a payload behind it.
C4_Witness ==
  /\ out.op = "ReadObject"
  /\ StartsWith(r, <<13, 1, 2, 107, tagObject>>)
  /\ out.before # <<>>
  /\ out.err = "version mismatch"

\* C5: an encoding call handed a value of a variant it cannot write returns
\* an error.
C5_EncoderFailsExplicitly ==
  (out.op \in {"WriteValue", "WriteObject"} /\ val \in NotEncodable)
    => out.err # ""

\* The dynamic types a decoding call can return.
ValueTypes ==
  {"nil", "UndefinedValue", "bool", "int32", "float64", "string",
   "map[string]any", "[]any", "[]byte", "[]int8", "[]int16", "[]uint16",
   "[]int32", "[]uint32", "[]int64", "[]uint64", "[]float32", "[]float64"}

\* C6: a decoding call that returns a value returns either a decoded value
\* and no error, having read the header and begun the value, or an error and
\* the nil value: nothing decoded before the error reaches the caller.
C6_AllOrNothing ==
  Decoded => \/ out.err = "" /\ out.started /\ out.v.t \in ValueTypes
             \/ out.err # "" /\ out.v = Nil

\* C6 witness: ReadValue met the end of the stream in an Array of two after
\* it had decoded the first item.
C6_Witness ==
  /\ out.op = "ReadValue"
  /\ r = NoAtoms \o <<tagArray, 2, tagNull>>
  /\ out.err = "EOF"
  /\ out.depth = 1
  /\ out.v = Nil

\* The atom tables of the three headers the key streams carry.
AtomsOf(s) ==
  IF StartsWith(s, TwoAtoms) THEN <<<<107>>, <<108>>>>
  ELSE IF StartsWith(s, OneAtom) THEN <<<<107>>>>
  ELSE <<>>

\* The bytes of s after its header.
Payload(s) ==
  IF StartsWith(s, TwoAtoms) THEN SubSeq(s, Len(TwoAtoms) + 1, Len(s))
  ELSE IF StartsWith(s, OneAtom) THEN SubSeq(s, Len(OneAtom) + 1, Len(s))
  ELSE SubSeq(s, Len(NoAtoms) + 1, Len(s))

\* The key varint k of an Object of one property, of one or two bytes.
KeyOf(p) == IF p[3] < 128 THEN p[3] ELSE (p[3] - 128) + 128 * p[4]

\* The number a run of ASCII decimal digits spells.
RECURSIVE DecimalValue(_)
DecimalValue(b) ==
  IF b = <<>> THEN 0
  ELSE 10 * DecimalValue(SubSeq(b, 1, Len(b) - 1)) + (b[Len(b)] - 48)

\* b is the base-10 text of n: digits only, no leading zero.
IsDecimalOf(b, n) ==
  /\ b # <<>>
  /\ \A i \in 1..Len(b) : b[i] \in 48..57
  /\ Len(b) > 1 => b[1] # 48
  /\ DecimalValue(b) = n

\* C7: in an Object of one null property, an odd key varint k makes the key
\* the base-10 text of k >> 1; an even k makes it atom number k >> 1 of the
\* header's table counted from 1, and the call fails with "atom out of range"
\* when k >> 1 is 0 or more than the number of atoms.
C7_ObjectKeys ==
  (Decoded /\ r \in KeyStreams)
    => IF KeyOf(Payload(r)) % 2 = 1
         THEN /\ out.err = ""
              /\ out.v.t = "map[string]any"
              /\ \E key \in DOMAIN out.v.m :
                   /\ DOMAIN out.v.m = {key}
                   /\ IsDecimalOf(key, KeyOf(Payload(r)) \div 2)
                   /\ out.v.m[key] = Nil
       ELSE IF KeyOf(Payload(r)) \div 2 \in 1..Len(AtomsOf(r))
         THEN /\ out.err = ""
              /\ out.v = Map_(AtomsOf(r)[KeyOf(Payload(r)) \div 2] :> Nil)
       ELSE out.err = "atom out of range" /\ out.v = Nil

\* C7 witness: ReadValue decoded the second of two atoms as a key.
C7_Witness ==
  /\ out.op = "ReadValue"
  /\ r = TwoAtoms \o <<tagObject, 1, 4, tagNull>>
  /\ out.v = Map_(<<108>> :> Nil)

\* A top-level TypedArray record with its kind, count, offset and nested tag
\* (each one byte), and one with the nested count as well.
TypedWithTag(s) ==
  StartsWith(s, NoAtoms \o <<tagTypedArray>>) /\ Len(s) >= 7 /\ s[5] < 128 /\ s[6] < 128

TypedWithCount(s) == TypedWithTag(s) /\ Len(s) >= 8 /\ s[8] < 128

\* What C8 asks of a decoding call on such a record.
NestedBufferChecked ==
  /\ (TypedWithTag(r) /\ r[7] # tagArrayBuffer)
       => out.err = "typed array not followed by arraybuffer" /\ out.v = Nil
  /\ (TypedWithCount(r) /\ r[7] = tagArrayBuffer /\ r[8] # r[5])
       => /\ out.err = "typed array not followed by arraybuffer of right size"
          /\ out.v = Nil
  /\ (TypedWithTag(r) /\ out.err = "")
       => TypedWithCount(r) /\ r[7] = tagArrayBuffer /\ r[8] = r[5]

\* C8 as stated: every TypedArray record, whatever its element kind, decodes
\* only if the nested record has the ArrayBuffer tag and the same count; a
\* different tag fails with the structural error and a different count with
\* the size mismatch.
C8_AsStated == Decoded => NestedBufferChecked

\* C8: the same for ReadValue on every record and for serde.go's ReadObject
\* on records whose element kind is at most 10 (it reports a greater kind
\* before it looks at the nested record); for every kind, a record whose
\* nested tag or count differs yields an error and no value.
C8_NestedBuffer ==
  /\ (out.op = "ReadValue" \/ (out.op = "ReadObjectV0" /\ TypedWithTag(r) /\ r[4] <= 10))
       => NestedBufferChecked
  /\ (Decoded /\ TypedWithTag(r) /\ r[7] # tagArrayBuffer)
       => out.err # "" /\ out.v = Nil
  /\ (Decoded /\ TypedWithCount(r) /\ r[8] # r[5])
       => out.err # "" /\ out.v = Nil

\* C8 witness: ReadValue refused a record of kind 0 with two bytes of data
\* whose count is 1 and whose nested buffer declares 2.
C8_Witness ==
  /\ out.op = "ReadValue"
  /\ r = NoAtoms \o <<tagTypedArray, uint8ClampedArray, 1, 0, tagArrayBuffer, 2, 42, 42>>
  /\ out.err = "typed array not followed by arraybuffer of right size"

\* C9: a top-level TypedArray record whose element kind is over 10, with its
\* counts, offset and nested tag all present, makes the decoding call fail
\* with the bad typed array tag.
C9_BadKindReported ==
  (Decoded /\ TypedWithCount(r) /\ r[4] > 10)
    => out.err = "bad typed array tag" /\ out.v = Nil

\* The 7-bit groups of the varint p starts with, or <<>> when p ends before
\* the varint does.
RECURSIVE VarintGroups(_)
VarintGroups(p) ==
  IF p = <<>> THEN <<>>
  ELSE IF p[1] < 128 THEN <<p[1]>>
  ELSE IF VarintGroups(Tail(p)) = <<>> THEN <<>>
  ELSE <<p[1] - 128>> \o VarintGroups(Tail(p))

\* Groups without the zero groups at their end.
RECURSIVE Canonical(_)
Canonical(g) ==
  IF g # <<>> /\ g[Len(g)] = 0 THEN Canonical(SubSeq(g, 1, Len(g) - 1)) ELSE g

\* The groups of n >= 0, least significant first.
RECURSIVE GroupsOf(_)
GroupsOf(n) == IF n = 0 THEN <<>> ELSE <<n % 128>> \o GroupsOf(n \div 128)

\* The groups of the zig-zag code of the int32 i: 2i, or -2i - 1 when i < 0.
ZigZagGroups(i) ==
  IF i >= 0 THEN Canonical(<<2 * (i % 64)>> \o GroupsOf(i \div 64))
  ELSE <<2 * ((0 - (i + 1)) % 64) + 1>> \o GroupsOf((0 - (i + 1)) \div 64)

\* The groups spell a number of 2^32 or more.
Beyond32Bits(g) == Len(Canonical(g)) > 5 \/ (Len(Canonical(g)) = 5 /\ g[5] >= 16)

\* C10: a top-level Int32 whose signed varint is complete decodes to the
\* int32 in [-2^31, 2^31 - 1] whose zig-zag code the varint spells, and fails
\* with "int32 out of range" when the varint spells a number outside it.
C10_Int32Range ==
  (Decoded /\ StartsWith(r, NoAtoms \o <<tagInt32>>) /\ VarintGroups(Tail(Payload(r))) # <<>>)
    => IF Beyond32Bits(VarintGroups(Tail(Payload(r))))
         THEN out.err = "int32 out of range" /\ out.v = Nil
         ELSE /\ out.err = ""
              /\ out.v.t = "int32"
              /\ out.v.i >= (0 - 2147483647) - 1
              /\ out.v.i <= 2147483647
              /\ ZigZagGroups(out.v.i) = Canonical(VarintGroups(Tail(Payload(r))))

\* C10 witness: ReadValue refused the varint ff ff ff ff 10, which spells
\* 2^32 + 2^28 - 1.
C10_Witness ==
  /\ out.op = "ReadValue"
  /\ r = NoAtoms \o <<tagInt32, 255, 255, 255, 255, 16>>
  /\ out.err = "int32 out of range"

\* The tags readValue decodes.
DecodedTags ==
  {tagNull, tagUndefined, tagFalse, tagTrue, tagInt32, tagFloat64, tagString,
   tagObject, tagArray, tagTypedArray, tagArrayBuffer}

\* The name the error gives a tag readValue does not decode.
RefusedName(tag) ==
  CASE tag = 10 -> "bigint"
    [] tag = 11 -> "template object"
    [] tag = 12 -> "function bytecode"
    [] tag = 13 -> "module"
    [] tag = 16 -> "sharedarraybuffer"
    [] tag = 17 -> "regexp"
    [] tag = 18 -> "date"
    [] tag = 19 -> "object value"
    [] tag = 20 -> "object reference"
    [] OTHER -> "unknown tag " \o ToString(tag)

\* The tag byte a tag stream puts to the test.
TestedTag(s) == s[Len(s)]

\* C11: ReadValue, met with a tag byte it does not decode, at the top level
\* or as an item of an Array, fails with "unsupported" and the tag's name,
\* "unknown tag N" with N in decimal for a byte that has none, and returns no
\* value.
C11_UnsupportedTag ==
  (out.op = "ReadValue" /\ r \in TagStreams /\ TestedTag(r) \notin DecodedTags)
    => /\ out.err = "unsupported " \o RefusedName(TestedTag(r))
       /\ out.v = Nil

\* C11 witness: ReadValue refused the byte 200 as the item of an Array.
C11_Witness ==
  /\ out.op = "ReadValue"
  /\ r = NoAtoms \o <<tagArray, 1, 200>>
  /\ out.err = "unsupported unknown tag 200"

\* The bytes of the value a run of property bytes starts with, for the
\* values of PropValues: an Int32 of one varint byte, an Array of no item or
\* of one one-byte item, or a lone tag.
ValueBytes(p) ==
  IF p = <<>> THEN <<>>
  ELSE IF p[1] = tagInt32 THEN SubSeq(p, 1, 2)
  ELSE IF p[1] = tagArray THEN SubSeq(p, 1, IF p[2] = 0 THEN 2 ELSE 3)
  ELSE SubSeq(p, 1, 1)

\* The properties of a binder stream: its bytes after the Object tag and the
\* count; the key and the value of the first, and the bytes after it.
PropBytes(s) == SubSeq(s, Len(TwoAtoms) + 3, Len(s))
PropCount(s) == s[Len(TwoAtoms) + 2]
FirstKey(p) == p[1]
FirstValue(p) == ValueBytes(Tail(p))
AfterFirst(p) == SubSeq(p, 2 + Len(FirstValue(p)), Len(p))

\* The field a key names: atom 1 is k, atom 2 is l; <<>> for no field name.
FieldNamed(key) ==
  IF key = 2 THEN <<107>> ELSE IF key = 4 THEN <<108>> ELSE <<>>

\* The value a run of value bytes decodes to; only for the values that do.
ValueOf(b) ==
  CASE b = <<tagNull>> -> Nil
    [] b = <<tagUndefined>> -> Undefined
    [] b = <<tagFalse>> -> Bool(FALSE)
    [] b = <<tagTrue>> -> Bool(TRUE)
    [] b = <<tagInt32, 84>> -> [t |-> "int32", i |-> 42]
    [] b = <<tagArray, 0>> -> Slice_(<<>>)
    [] b = <<tagArray, 1, tagNull>> -> Slice_(<<Nil>>)

Decodes(b) == b \notin {<<>>, <<tagBigInt>>}

\* The zero value of a field of the record types used.
ZeroValue(type) ==
  CASE type = "int" -> GoInt(0)
    [] type = "*int" -> IntPtr(TRUE)
    [] type = "bool" -> Bool(FALSE)
    [] type = "any" -> Nil

\* A value of type valueType may be stored in a field of type fieldType.
Compatible(valueType, fieldType) == fieldType = "any" \/ fieldType = valueType

\* ReadObject was handed an Object of one property whose key names a field
\* of the record and whose value decodes.
OneMatchedProp ==
  /\ out.op = "ReadObject"
  /\ r \in BinderStreams
  /\ PropCount(r) = 1
  /\ FieldNamed(FirstKey(PropBytes(r))) \in DOMAIN out.before
  /\ Decodes(FirstValue(PropBytes(r)))

\* C12: in ReadObject a decoded Null or Undefined under a key that names a
\* field sets the field to its zero value; any other value is assigned when
\* its type is compatible with the field's and otherwise the call fails with
\* the type mismatch.
C12_BinderAssigns ==
  OneMatchedProp
    => IF FirstValue(PropBytes(r)) \in {<<tagNull>>, <<tagUndefined>>}
         THEN /\ out.err = ""
              /\ out.rec[FieldNamed(FirstKey(PropBytes(r)))].val
                   = ZeroValue(out.before[FieldNamed(FirstKey(PropBytes(r)))].type)
       ELSE IF Compatible(ValueOf(FirstValue(PropBytes(r))).t,
                          out.before[FieldNamed(FirstKey(PropBytes(r)))].type)
         THEN /\ out.err = ""
              /\ out.rec[FieldNamed(FirstKey(PropBytes(r)))].val
                   = ValueOf(FirstValue(PropBytes(r)))
       ELSE out.err = "reflect.Set: value is not assignable"

\* The key and the value of the second property of a binder stream.
SecondKey(p) == FirstKey(AfterFirst(p))
SecondValue(p) == FirstValue(AfterFirst(p))

\* ReadObject was handed an Object whose first property has a key that is in
\* range and names no field of the record, and a value that decodes.
FirstUnmatched ==
  /\ out.op = "ReadObject"
  /\ r \in BinderStreams
  /\ FirstKey(PropBytes(r)) \in {1, 2, 4}
  /\ FieldNamed(FirstKey(PropBytes(r))) \notin DOMAIN out.before
  /\ Decodes(FirstValue(PropBytes(r)))

\* The second property has a key that names a field and a value that
\* decodes.
SecondMatched ==
  /\ PropCount(r) = 2
  /\ AfterFirst(PropBytes(r)) # <<>>
  /\ FieldNamed(SecondKey(PropBytes(r))) \in DOMAIN out.before
  /\ Decodes(SecondValue(PropBytes(r)))

\* C13: in ReadObject a key that names no field of the record changes no
\* field and causes no error, and its value is read in full: alone in the
\* object it leaves the record as it was with the whole stream read, and a
\* property after it is decoded and bound to its own field.
C13_UnmatchedKeySkipped ==
  FirstUnmatched
    => /\ PropCount(r) = 1
            => out.err = "" /\ out.rec = out.before /\ out.pos = Len(r) + 1
       /\ (SecondMatched /\ SecondValue(PropBytes(r)) = <<tagNull>>)
            => /\ out.err = ""
               /\ out.pos = Len(r) + 1
               /\ out.rec =
                    [out.before EXCEPT ![FieldNamed(SecondKey(PropBytes(r)))].val =
                       ZeroValue(out.before[FieldNamed(SecondKey(PropBytes(r)))].type)]
       /\ (SecondMatched /\ SecondValue(PropBytes(r)) # <<tagNull>>
             /\ Compatible(ValueOf(SecondValue(PropBytes(r))).t,
                           out.before[FieldNamed(SecondKey(PropBytes(r)))].type))
            => /\ out.err = ""
               /\ out.pos = Len(r) + 1
               /\ out.rec =
                    [out.before EXCEPT ![FieldNamed(SecondKey(PropBytes(r)))].val =
                       ValueOf(SecondValue(PropBytes(r)))]
       /\ (PropCount(r) = 2
             /\ (AfterFirst(PropBytes(r)) = <<>>
                   \/ FieldNamed(SecondKey(PropBytes(r))) \notin DOMAIN out.before))
            => out.rec = out.before

\* C13 witness: ReadObject skipped the key "0" with an Array of one null as
\* its value and then set the int field k, which held 42, to zero from the
\* null under the key k.
C13_Witness ==
  /\ out.op = "ReadObject"
  /\ r = TwoAtoms \o <<tagObject, 2, 1, tagArray, 1, tagNull, 2, tagNull>>
  /\ out.before = (<<107>> :> Field("int", GoInt(42)))
  /\ out.rec = (<<107>> :> Field("int", GoInt(0)))
  /\ out.err = ""

\* C15: a ReadObject that fails leaves every field of the caller's record at
\* the value it had before the call.
C15_RecordUntouchedOnError ==
  (out.op = "ReadObject" /\ out.err # "") => out.rec = out.before

\* The eight little-endian bytes of a float64's bit pattern.
BitsOf(f) ==
  <<f.frac[7], f.frac[6], f.frac[5], f.frac[4], f.frac[3], f.frac[2],
    (f.exp % 16) * 16 + f.frac[1], f.sign * 128 + (f.exp \div 16)>>

\* A top-level Float64 with all eight bytes of its payload.
WholeFloat(s) == StartsWith(s, NoAtoms \o <<tagFloat64>>) /\ Len(s) >= 11

\* C14: a Float64 decodes to the float64 whose bit pattern is its eight
\* payload bytes, so different payloads give different bit patterns; the
\* all-zero payload is +0.0 (sign bit clear) and the one with only the top
\* bit of the last byte set is -0.0 (sign bit set, all else zero).
C14_Float64Verbatim ==
  (Decoded /\ WholeFloat(r))
    => /\ out.err = ""
       /\ out.v.t = "float64"
       /\ BitsOf(out.v) = SubSeq(r, 4, 11)
       /\ SubSeq(r, 4, 11) = <<0, 0, 0, 0, 0, 0, 0, 0>>
            => out.v.sign = 0 /\ out.v.exp = 0 /\ out.v.frac = <<0, 0, 0, 0, 0, 0, 0>>
       /\ SubSeq(r, 4, 11) = <<0, 0, 0, 0, 0, 0, 0, 128>>
            => out.v.sign = 1 /\ out.v.exp = 0 /\ out.v.frac = <<0, 0, 0, 0, 0, 0, 0>>

\* C14 witness: ReadValue decoded the payload of -0.0.
C14_Witness ==
  /\ out.op = "ReadValue"
  /\ r = NoAtoms \o <<tagFloat64, 0, 0, 0, 0, 0, 0, 0, 128>>
  /\ out.err = ""
  /\ out.v.sign = 1

\* C16: a WriteValue that fails has handed no byte to the writer.
C16_NothingWrittenOnError ==
  (out.op = "WriteValue" /\ out.err # "") => out.w.buf = <<>>

\* C17: a top-level TypedArray record of kind 0 to 10 and count n, whose
\* nested record has the ArrayBuffer tag and the count n and is followed by
\* at least n bytes, decodes, and the decoder stops right after those n
\* bytes, where a stand-alone decode of the nested ArrayBuffer would stop.
C17_ConsumesNestedBuffer ==
  (Decoded /\ TypedWithCount(r) /\ r[4] <= 10 /\ r[7] = tagArrayBuffer
     /\ r[8] = r[5] /\ Len(r) - 8 >= r[5])
    => out.err = "" /\ out.pos = 9 + r[5]

\* The stream s with the one-byte offset of its TypedArray record replaced
\* by the varint off.
WithOffset(s, off) == SubSeq(s, 1, 5) \o off \o SubSeq(s, 7, Len(s))

\* Other spellings of the offset: 0, 1, 200 and 2^31 - 1.
OtherOffsets == {<<0>>, <<1>>, <<200, 1>>, <<255, 255, 255, 255, 7>>}

\* The call that gave out, made on the stream s.
SameCall(s) == IF out.op = "ReadValue" THEN ReadValue(s) ELSE ReadObjectV0(s)

\* C18: the stream of a top-level TypedArray record decodes to the same
\* value, or fails with the same error, whatever the offset field is
\* replaced by.
C18_OffsetIgnored ==
  (Decoded /\ TypedWithTag(r))
    => \A off \in OtherOffsets :
         /\ SameCall(WithOffset(r, off)).err = out.err
         /\ SameCall(WithOffset(r, off)).v = out.v

\* C18 witness: ReadValue decoded a record of one byte whose offset is 1.
C18_Witness ==
  /\ out.op = "ReadValue"
  /\ r = NoAtoms \o <<tagTypedArray, uint8ClampedArray, 1, 1, tagArrayBuffer, 1, 42>>
  /\ out.v = Elems("[]byte", <<42>>)

====
